---------------------------- MODULE Spec2Model ----------------------------
(***************************************************************************)
(* A model of loversholiday.py: the coordinate-to-GeoJSON converter.       *)
(*                                                                         *)
(* Text is modelled as a sequence of one-character strings, so that        *)
(* strip(), split(','), lower(), float() and strptime() are computed       *)
(* character by character, as Python computes them.  An optional value     *)
(* (Python's None) is the empty tuple; a present value v is <<v>>.         *)
(***************************************************************************)
EXTENDS Integers, Sequences, FiniteSets, TLC

(***************************************************************************)
(* Bounds of the model.                                                    *)
(***************************************************************************)
\* the longest input file, in physical lines
MaxLines == 3
\* the most coordinate prompts answered with something else than 'done'
MaxRounds == 2

(***************************************************************************)
(* Text helpers: str.strip, str.split, str.lower, str.startswith,          *)
(* str.endswith, f"{int}".                                                 *)
(***************************************************************************)
None == <<>>

Some(v) == <<v>>

Digits == <<"0", "1", "2", "3", "4", "5", "6", "7", "8", "9">>

IsDigit(c) == \E i \in 1..10 : Digits[i] = c

DigitVal(c) == (CHOOSE i \in 1..10 : Digits[i] = c) - 1

IsSpace(c) == c \in {" ", "\t", "\n"}

RECURSIVE LStrip(_)
LStrip(s) ==
    IF s = <<>> THEN <<>>
    ELSE IF IsSpace(Head(s)) THEN LStrip(Tail(s)) ELSE s

RECURSIVE RStrip(_)
RStrip(s) ==
    IF s = <<>> THEN <<>>
    ELSE IF IsSpace(s[Len(s)]) THEN RStrip(SubSeq(s, 1, Len(s) - 1)) ELSE s

Strip(s) == RStrip(LStrip(s))

\* str.split(sep): always at least one part; "" splits into [""]
RECURSIVE Split(_, _)
Split(s, sep) ==
    IF \A i \in 1..Len(s) : s[i] # sep THEN <<s>>
    ELSE LET k == CHOOSE i \in 1..Len(s) :
                      s[i] = sep /\ \A j \in 1..(i - 1) : s[j] # sep
         IN  <<SubSeq(s, 1, k - 1)>> \o Split(SubSeq(s, k + 1, Len(s)), sep)

LowerChar(c) ==
    CASE c = "D" -> "d"
      [] c = "O" -> "o"
      [] c = "N" -> "n"
      [] c = "E" -> "e"
      [] OTHER -> c

Lower(s) == [i \in 1..Len(s) |-> LowerChar(s[i])]

StartsWith(s, p) == Len(s) >= Len(p) /\ SubSeq(s, 1, Len(p)) = p

EndsWith(s, p) ==
    Len(s) >= Len(p) /\ SubSeq(s, Len(s) - Len(p) + 1, Len(s)) = p

\* the decimal digits of a natural number, as f"{n}" prints them
RECURSIVE IntToStr(_)
IntToStr(n) ==
    IF n < 10 THEN <<Digits[n + 1]>>
    ELSE IntToStr(n \div 10) \o <<Digits[(n % 10) + 1]>>

\* the value of a non-empty string of decimal digits
RECURSIVE DigitsVal(_)
DigitsVal(s) ==
    IF s = <<>> THEN 0
    ELSE DigitsVal(SubSeq(s, 1, Len(s) - 1)) * 10 + DigitVal(s[Len(s)])

AllDigits(s) == \A i \in 1..Len(s) : IsDigit(s[i])

\* zero-padded to width w, as strftime pads %m and %d
RECURSIVE Pad(_, _)
Pad(s, w) == IF Len(s) >= w THEN s ELSE Pad(<<"0">> \o s, w)

(***************************************************************************)
(* float(text): an optional sign, then digits with an optional point.      *)
(* The inputs of the model hold no exponent, underscore, "inf" or "nan".   *)
(* The value is kept exactly, as num / 10^exp with no trailing zero in     *)
(* the fraction, so that equal numbers are equal values.                   *)
(***************************************************************************)
FloatBody(s) ==
    LET parts == Split(s, ".")
    IN  /\ Len(parts) \in {1, 2}
        /\ \A i \in 1..Len(parts) : AllDigits(parts[i])
        /\ \E i \in 1..Len(parts) : parts[i] # <<>>

RECURSIVE DropTrailingZeros(_)
DropTrailingZeros(s) ==
    IF s # <<>> /\ s[Len(s)] = "0"
    THEN DropTrailingZeros(SubSeq(s, 1, Len(s) - 1))
    ELSE s

FloatBodyVal(s, negative) ==
    LET parts == Split(s, ".")
        frac  == DropTrailingZeros(IF Len(parts) = 2 THEN parts[2] ELSE <<>>)
        num   == DigitsVal(parts[1] \o frac)
    IN  [num |-> IF negative THEN 0 - num ELSE num, exp |-> Len(frac)]

\* None stands for the ValueError float() raises
ParseFloat(text) ==
    LET s    == Strip(text)
        sign == IF s # <<>> /\ Head(s) \in {"+", "-"} THEN Head(s) ELSE ""
        body == IF sign = "" THEN s ELSE Tail(s)
    IN  IF FloatBody(body) THEN Some(FloatBodyVal(body, sign = "-")) ELSE None

(***************************************************************************)
(* datetime.strptime(text, "%d%m%Y").  The format is compiled to the       *)
(* regular expression                                                      *)
(*   (3[0-1]|[1-2]\d|0[1-9]|[1-9]| [1-9])(1[0-2]|0[1-9]|[1-9])(\d\d\d\d)   *)
(* which is matched at the start of the text, alternatives tried in order  *)
(* with backtracking; text left over after the match, or a day or year     *)
(* out of range, is a ValueError.                                          *)
(***************************************************************************)
DayLen2(s) ==
    /\ Len(s) >= 2
    /\ \/ s[1] = "3" /\ s[2] \in {"0", "1"}
       \/ s[1] \in {"1", "2"} /\ IsDigit(s[2])
       \/ s[1] = "0" /\ IsDigit(s[2]) /\ s[2] # "0"
       \/ s[1] = " " /\ IsDigit(s[2]) /\ s[2] # "0"

DayLen1(s) == Len(s) >= 1 /\ IsDigit(s[1]) /\ s[1] # "0"

MonthLen2(s) ==
    /\ Len(s) >= 2
    /\ \/ s[1] = "1" /\ s[2] \in {"0", "1", "2"}
       \/ s[1] = "0" /\ IsDigit(s[2]) /\ s[2] # "0"

MonthLen1(s) == Len(s) >= 1 /\ IsDigit(s[1]) /\ s[1] # "0"

YearLen4(s) == Len(s) >= 4 /\ AllDigits(SubSeq(s, 1, 4))

Rest(s, n) == SubSeq(s, n + 1, Len(s))

\* whether the day takes dl characters and the month ml, with a year after
RegexFits(s, dl, ml) ==
    /\ IF dl = 2 THEN DayLen2(s) ELSE DayLen1(s)
    /\ IF ml = 2 THEN MonthLen2(Rest(s, dl)) ELSE MonthLen1(Rest(s, dl))
    /\ YearLen4(Rest(s, dl + ml))

\* the regular expression's alternatives, in the order it tries them
RegexOrder == << <<2, 2>>, <<2, 1>>, <<1, 2>>, <<1, 1>> >>

\* the match the regular expression finds: <<day length, month length>>
RegexMatch(s) ==
    LET fits == {k \in 1..4 : RegexFits(s, RegexOrder[k][1], RegexOrder[k][2])}
    IN  IF fits = {} THEN None
        ELSE Some(RegexOrder[CHOOSE k \in fits : \A j \in fits : k <= j])

IsLeap(y) == (y % 4 = 0) /\ ((y % 100 # 0) \/ (y % 400 = 0))

DaysInMonth(y, m) ==
    IF m = 2 THEN (IF IsLeap(y) THEN 29 ELSE 28)
    ELSE IF m \in {4, 6, 9, 11} THEN 30 ELSE 31

\* None stands for the ValueError strptime raises
Strptime(s) ==
    LET found == RegexMatch(s)
    IN  IF found = None THEN None
        ELSE LET dl == found[1][1]
                 ml == found[1][2]
                 d  == DigitsVal(Strip(SubSeq(s, 1, dl)))
                 m  == DigitsVal(SubSeq(s, dl + 1, dl + ml))
                 y  == DigitsVal(SubSeq(s, dl + ml + 1, dl + ml + 4))
             IN  IF Len(s) # dl + ml + 4 THEN None
                 ELSE IF y < 1 \/ d > DaysInMonth(y, m) THEN None
                 ELSE Some([year |-> y, month |-> m, day |-> d])

\* the days of the months of year y before month m
RECURSIVE DaysBeforeMonth(_, _)
DaysBeforeMonth(y, m) ==
    IF m = 1 THEN 0 ELSE DaysBeforeMonth(y, m - 1) + DaysInMonth(y, m - 1)

\* date.toordinal(): the number of the day, 1 being 1 January of year 1
ToOrdinal(date) ==
    LET y1 == date.year - 1
    IN  y1 * 365 + (y1 \div 4) - (y1 \div 100) + (y1 \div 400)
          + DaysBeforeMonth(date.year, date.month) + date.day

\* a variant that drops the sign of the difference
DaysBetweenAbs(start_date, end_date) ==
    LET days == ToOrdinal(end_date) - ToOrdinal(start_date)
    IN  IF days < 0 THEN 0 - days ELSE days

\* (end_date - start_date).days
DaysBetween(start_date, end_date) == ToOrdinal(end_date) - ToOrdinal(start_date)

\* date_obj.strftime("%Y-%m-%dT%H:%M:%S"): the time of a parsed date is midnight
Strftime(date) ==
    IntToStr(date.year) \o <<"-">> \o Pad(IntToStr(date.month), 2) \o <<"-">>
        \o Pad(IntToStr(date.day), 2)
        \o <<"T", "0", "0", ":", "0", "0", ":", "0", "0">>

calculate_duration(start_date_str, end_date_str) ==
    LET start_date == Strptime(start_date_str)
        end_date   == Strptime(end_date_str)
    IN  IF start_date = None \/ end_date = None THEN None
        ELSE Some(DaysBetween(start_date[1], end_date[1]))

Unknown == <<"u", "n", "k", "n", "o", "w", "n">>

\* a variant that takes only tokens of exactly eight characters
format_date_eight(date_str) ==
    IF date_str = Unknown \/ date_str = <<>> \/ Len(date_str) # 8 THEN None
    ELSE LET date_obj == Strptime(date_str)
         IN  IF date_obj = None THEN None ELSE Some(Strftime(date_obj[1]))

format_date(date_str) ==
    IF date_str = Unknown \/ date_str = <<>> THEN None
    ELSE LET date_obj == Strptime(date_str)
         IN  IF date_obj = None THEN None ELSE Some(Strftime(date_obj[1]))

(***************************************************************************)
(* The state of one run of the program.                                    *)
(***************************************************************************)
VARIABLES
    pc,           \* the position of the run in the main program
    choice,       \* the mode the user chose, trimmed
    file,         \* the input file: None when missing, else <<its lines>>
    line_num,     \* the 1-based number of the last line the reader took
    reported,     \* the line numbers of the "Need at least lat and lon" reports
    read_error,   \* whether the reader ended in "Error reading file"
    user_input,   \* the last answer to the coordinate prompt, trimmed
    rounds,       \* the coordinate prompts answered so far
    pending,      \* the fields of the round being entered
    coordinates,  \* the records: <<lat, lon, name, start_date, end_date>>
    output_name,  \* the name of the output file, None before it is asked
    features,     \* geojson["features"]
    written       \* the document on disk: None, or <<the features written>>

vars == <<pc, choice, file, line_num, reported, read_error, user_input,
          rounds, pending, coordinates, output_name, features, written>>

(***************************************************************************)
(* create_point_geojson                                                    *)
(***************************************************************************)
PointPrefix == <<"P", "o", "i", "n", "t", " ">>

\* f"Point {n}"
PointName(n) == PointPrefix \o IntToStr(n)

\* a variant that keeps the input order
GeometryCoordinatesLatFirst(lat, lon) == <<lat, lon>>

\* "coordinates": [lon, lat]
GeometryCoordinates(lat, lon) == <<lon, lat>>

\* the feature of the record coord, the index-th of the list (from 1)
Feature(index, coord) ==
    LET lat        == coord[1]
        lon        == coord[2]
        name       == IF Len(coord) > 2 THEN coord[3] ELSE PointName(index)
        start_date == IF Len(coord) > 3 THEN coord[4] ELSE Unknown
        end_date   == IF Len(coord) > 4 THEN coord[5] ELSE Unknown
    IN  [type       |-> "Feature",
         geometry   |-> [type        |-> "Point",
                         coordinates |-> GeometryCoordinates(lat, lon)],
         properties |-> [number        |-> index,
                         name          |-> name,
                         latitude      |-> lat,
                         longitude     |-> lon,
                         start_date    |-> format_date(start_date),
                         end_date      |-> format_date(end_date),
                         duration_days |->
                             calculate_duration(start_date, end_date)]]

\* a variant that inserts at the front
AppendFeatureFront(fs, feature) == <<feature>> \o fs

\* geojson["features"].append(feature)
AppendFeature(fs, feature) == Append(fs, feature)

\* one turn of the loop over enumerate(coordinates_list, start=1)
BuildFeature ==
    /\ pc = "build"
    /\ Len(features) < Len(coordinates)
    /\ LET index == Len(features) + 1
       IN  features' = AppendFeature(features, Feature(index, coordinates[index]))
    /\ UNCHANGED <<pc, choice, file, line_num, reported, read_error,
                   user_input, rounds, pending, coordinates, output_name,
                   written>>

\* the loop is over: json.dump(geojson, f, indent=2)
WriteFile ==
    /\ pc = "build"
    /\ Len(features) = Len(coordinates)
    /\ written' = Some(features)
    /\ pc' = "done"
    /\ UNCHANGED <<choice, file, line_num, reported, read_error, user_input,
                   rounds, pending, coordinates, output_name, features>>

(***************************************************************************)
(* create_point_geojson called on one record, for every pair of date       *)
(* tokens of a bounded set.                                                *)
(***************************************************************************)
DayTexts ==
    { <<"1">>, <<"0", "1">>, <<"1", "5">>, <<"2", "0">>, <<"2", "9">>,
      <<"3", "1">>, <<"3", "2">>, <<"0", "0">>, <<" ", "1">> }

MonthTexts ==
    { <<"1">>, <<"0", "1">>, <<"0", "2">>, <<"1", "2">>, <<"1", "3">>,
      <<"0", "0">> }

YearTexts ==
    { <<"2", "0", "2", "3">>, <<"2", "0", "2", "4">>, <<"0", "0", "0", "0">>,
      <<"0", "2", "4">> }

DateTokens ==
    { d \o m \o y : d \in DayTexts, m \in MonthTexts, y \in YearTexts }
        \cup { Unknown, <<>>, <<"1", "5", "/", "0", "1", "/", "2", "0", "2", "4">> }

OutputDefault ==
    <<"o", "u", "t", "p", "u", "t", ".", "g", "e", "o", "j", "s", "o", "n">>

SampleLat == [num |-> 15, exp |-> 1]

SampleLon == [num |-> 0 - 2, exp |-> 0]

InitDate ==
    /\ pc = "build"
    /\ choice = <<>>
    /\ file = None
    /\ line_num = 0
    /\ reported = <<>>
    /\ read_error = FALSE
    /\ user_input = <<>>
    /\ rounds = 0
    /\ pending = <<>>
    /\ \E s \in DateTokens, e \in DateTokens :
           coordinates = << <<SampleLat, SampleLon, PointName(1), s, e>> >>
    /\ output_name = Some(OutputDefault)
    /\ features = <<>>
    /\ written = None

NextDate == BuildFeature \/ WriteFile

SpecDate == InitDate /\ [][NextDate]_vars

(***************************************************************************)
(* read_coordinates_from_file                                              *)
(***************************************************************************)
\* what the loop body does with a line, already trimmed:
\*   "skip"   an empty line or a comment: continue
\*   "short"  fewer than two parts: report and continue
\*   "error"  float() raises ValueError
\*   "record" a record is appended
LineKind(line) ==
    IF line = <<>> \/ StartsWith(line, <<"#">>) THEN "skip"
    ELSE LET parts == Split(line, ",")
         IN  IF Len(parts) < 2 THEN "short"
             ELSE IF ParseFloat(Strip(parts[1])) = None
                       \/ ParseFloat(Strip(parts[2])) = None
                  THEN "error"
                  ELSE "record"

\* the tuple appended for a line of kind "record", count records being held
FileRecord(line, count) ==
    LET parts      == Split(line, ",")
        lat        == ParseFloat(Strip(parts[1]))[1]
        lon        == ParseFloat(Strip(parts[2]))[1]
        name       == IF Len(parts) > 2 THEN Strip(parts[3])
                      ELSE PointName(count + 1)
        start_date == IF Len(parts) > 3 THEN Strip(parts[4]) ELSE Unknown
        end_date   == IF Len(parts) > 4 THEN Strip(parts[5]) ELSE Unknown
    IN  <<lat, lon, name, start_date, end_date>>

\* a variant that skips a line float() rejects
AfterLineNeverStops(kind) == "reading"

\* a variant that also ends the read at a line with fewer than two parts
AfterLineShortStops(kind) ==
    IF kind \in {"error", "short"} THEN "check" ELSE "reading"

\* where the reader is after a line: the ValueError handler is outside the
\* loop, so an "error" line ends the read; the others continue it
AfterLine(kind) == IF kind = "error" THEN "check" ELSE "reading"

\* the line as the file iterator yields it, with its line terminator
RawLine(n) == file[1][n] \o <<"\n">>

OpenFileMissing == None

\* one turn of the loop over enumerate(f, 1)
ReadLine ==
    /\ pc = "reading"
    /\ line_num < Len(file[1])
    /\ LET n    == line_num + 1
           line == Strip(RawLine(n))
           kind == LineKind(line)
       IN  /\ line_num' = n
           /\ reported' = IF kind = "short" THEN Append(reported, n)
                          ELSE reported
           /\ coordinates' =
                  IF kind = "record"
                  THEN Append(coordinates, FileRecord(line, Len(coordinates)))
                  ELSE coordinates
           /\ read_error' = (kind = "error")
           /\ pc' = AfterLine(kind)
    /\ UNCHANGED <<choice, file, user_input, rounds, pending, output_name,
                   features, written>>

\* the file is exhausted: "Read n coordinates", return coordinates
EndOfFile ==
    /\ pc = "reading"
    /\ line_num = Len(file[1])
    /\ pc' = "check"
    /\ UNCHANGED <<choice, file, line_num, reported, read_error, user_input,
                   rounds, pending, coordinates, output_name, features,
                   written>>

(***************************************************************************)
(* input_coordinates_manually                                              *)
(***************************************************************************)
Done == <<"d", "o", "n", "e">>

\* a variant that compares without lower()
IsDoneCaseSensitive(text) == text = Done

\* user_input.lower() == 'done'
IsDone(text) == Lower(text) = Done

\* the outcome of the coordinate prompt for the trimmed answer text:
\*   "done"   the loop ends
\*   "short"  fewer than two parts: warn and continue
\*   "error"  float() raises ValueError: warn, next turn of the loop
\*   "ok"     the round goes on to the name and date prompts
CoordinateKind(text) ==
    IF IsDone(text) THEN "done"
    ELSE LET parts == Split(text, ",")
         IN  IF Len(parts) < 2 THEN "short"
             ELSE IF ParseFloat(Strip(parts[1])) = None
                       \/ ParseFloat(Strip(parts[2])) = None
                  THEN "error"
                  ELSE "ok"

\* the prompt for coordinates
EnterCoordinates(text) ==
    /\ pc = "manual_coord"
    /\ rounds < MaxRounds \/ IsDone(Strip(text))
    /\ LET answer == Strip(text)
           kind   == CoordinateKind(answer)
           parts  == Split(answer, ",")
       IN  /\ user_input' = answer
           /\ rounds' = IF kind = "done" THEN rounds ELSE rounds + 1
           /\ pending' = IF kind = "ok"
                         THEN <<ParseFloat(Strip(parts[1]))[1],
                                ParseFloat(Strip(parts[2]))[1]>>
                         ELSE <<>>
           /\ pc' = CASE kind = "done" -> "check"
                      [] kind = "ok"   -> "manual_name"
                      [] OTHER         -> "manual_coord"
    /\ UNCHANGED <<choice, file, line_num, reported, read_error, coordinates,
                   output_name, features, written>>

\* the name of the round: the answer, or f"Point {len(coordinates) + 1}"
ManualName(text, count) ==
    IF Strip(text) = <<>> THEN PointName(count + 1) ELSE Strip(text)

\* a date of the round: the answer, or "unknown"
ManualDate(text) == IF Strip(text) = <<>> THEN Unknown ELSE Strip(text)

EnterName(text) ==
    /\ pc = "manual_name"
    /\ pending' = Append(pending, ManualName(text, Len(coordinates)))
    /\ pc' = "manual_start"
    /\ UNCHANGED <<choice, file, line_num, reported, read_error, user_input,
                   rounds, coordinates, output_name, features, written>>

EnterStartDate(text) ==
    /\ pc = "manual_start"
    /\ pending' = Append(pending, ManualDate(text))
    /\ pc' = "manual_end"
    /\ UNCHANGED <<choice, file, line_num, reported, read_error, user_input,
                   rounds, coordinates, output_name, features, written>>

\* the last prompt of the round; the duration is computed for the message
\* only, and the record is appended
EnterEndDate(text) ==
    /\ pc = "manual_end"
    /\ coordinates' = Append(coordinates, Append(pending, ManualDate(text)))
    /\ pending' = <<>>
    /\ pc' = "manual_coord"
    /\ UNCHANGED <<choice, file, line_num, reported, read_error, user_input,
                   rounds, output_name, features, written>>

(***************************************************************************)
(* The main program                                                        *)
(***************************************************************************)
\* the position after the mode prompt
AfterChoice(c) ==
    CASE c = <<"1">> -> "manual_coord"
      [] c = <<"2">> -> "filename"
      [] OTHER       -> "exit_invalid"

EnterChoice(text) ==
    /\ pc = "start"
    /\ choice' = Strip(text)
    /\ pc' = AfterChoice(Strip(text))
    /\ UNCHANGED <<file, line_num, reported, read_error, user_input, rounds,
                   pending, coordinates, output_name, features, written>>

\* the filename prompt and open(filename): the file named is missing
\* (FileNotFoundError: the reader returns no record) or holds content
EnterFilename(content) ==
    /\ pc = "filename"
    /\ file' = content
    /\ pc' = IF content = OpenFileMissing THEN "check" ELSE "reading"
    /\ UNCHANGED <<choice, line_num, reported, read_error, user_input, rounds,
                   pending, coordinates, output_name, features, written>>

\* a variant that never finds the list empty
NoCoordinatesNever(coords) == FALSE

\* not coordinates
NoCoordinates(coords) == Len(coords) = 0

CheckCoordinates ==
    /\ pc = "check"
    /\ pc' = IF NoCoordinates(coordinates) THEN "exit_empty" ELSE "ask_output"
    /\ UNCHANGED <<choice, file, line_num, reported, read_error, user_input,
                   rounds, pending, coordinates, output_name, features,
                   written>>

GeojsonSuffix == <<".", "g", "e", "o", "j", "s", "o", "n">>

\* the output filename: the default when empty, the suffix when missing
OutputName(text) ==
    LET name == IF Strip(text) = <<>> THEN OutputDefault ELSE Strip(text)
    IN  IF EndsWith(name, GeojsonSuffix) THEN name ELSE name \o GeojsonSuffix

\* the prompt for the output filename, then create_point_geojson is called
EnterOutputName(text) ==
    /\ pc = "ask_output"
    /\ output_name' = Some(OutputName(text))
    /\ pc' = "build"
    /\ UNCHANGED <<choice, file, line_num, reported, read_error, user_input,
                   rounds, pending, coordinates, features, written>>

(***************************************************************************)
(* The inputs of the model.                                                *)
(***************************************************************************)
ChoiceInputs == { <<"1">>, <<" ", "2">>, <<"3">>, <<>> }

FileLines ==
    { <<" ">>,
      <<" ", "#", "1", ",", "2">>,
      <<"x">>,
      <<"x", ",", "2">>,
      <<"1", ",", "y">>,
      <<"1", ".", "5", ",", "-", "2">>,
      <<"1", ",", "2", ",", ",", "1", "5", "0", "1", "2", "0", "2", "4">>,
      <<" ", "5", " ", ",", " ", "6", " ", ",", " ", "B", " ", ",", "1", "5", "0", "1", "2", "0", "2", "4", ",", "2", "0", "0", "1", "2", "0", "2", "4">> }

Files == UNION { [1..n -> FileLines] : n \in 0..MaxLines }

FileContents == {OpenFileMissing} \cup { Some(f) : f \in Files }

CoordInputs ==
    { Done,
      <<" ", "D", "O", "N", "E", " ">>,
      <<"7">>,
      <<"x", ",", "2">>,
      <<"1", ",", "y">>,
      <<"1", ".", "5", ",", "-", "2">>,
      <<" ", "3", " ", ",", " ", "4", " ", ",", "9">> }

NameInputs == { <<>>, <<" ">>, <<" ", "A">> }

StartInputs == { <<>>, <<"1", "5", "0", "1", "2", "0", "2", "4">> }

EndInputs == { <<>>, <<"2", "0", "0", "1", "2", "0", "2", "4">> }

OutputInputs == { <<>>, <<"t">>, <<"t">> \o GeojsonSuffix }

Init ==
    /\ pc = "start"
    /\ choice = <<>>
    /\ file = None
    /\ line_num = 0
    /\ reported = <<>>
    /\ read_error = FALSE
    /\ user_input = <<>>
    /\ rounds = 0
    /\ pending = <<>>
    /\ coordinates = <<>>
    /\ output_name = None
    /\ features = <<>>
    /\ written = None

Next ==
    \/ \E text \in ChoiceInputs : EnterChoice(text)
    \/ \E content \in FileContents : EnterFilename(content)
    \/ ReadLine
    \/ EndOfFile
    \/ \E text \in CoordInputs : EnterCoordinates(text)
    \/ \E text \in NameInputs : EnterName(text)
    \/ \E text \in StartInputs : EnterStartDate(text)
    \/ \E text \in EndInputs : EnterEndDate(text)
    \/ CheckCoordinates
    \/ \E text \in OutputInputs : EnterOutputName(text)
    \/ BuildFeature
    \/ WriteFile

Spec == Init /\ [][Next]_vars

(***************************************************************************)
(* Properties                                                              *)
(***************************************************************************)
ModeManual == <<"1">>

ModeFile == <<"2">>

\* C1: the document has one feature per record, the feature at position i
\* is built from record i and numbered i (from 1): nothing is reordered,
\* filtered out or deduplicated.
C1_FeaturePerRecordInOrder ==
    /\ Len(features) <= Len(coordinates)
    /\ \A i \in 1..Len(features) :
           /\ features[i].properties.number = i
           /\ features[i].properties.latitude = coordinates[i][1]
           /\ features[i].properties.longitude = coordinates[i][2]
           /\ features[i].properties.name = coordinates[i][3]
    /\ written # None =>
           /\ written[1] = features
           /\ Len(written[1]) = Len(coordinates)

C1_Witness ==
    /\ written # None
    /\ Len(coordinates) = 2
    /\ coordinates[1] # coordinates[2]
    /\ written[1][2].properties.name = <<"A">>

\* the lines of a file as the reader classifies them, stated on the text
TrimmedLine(f, n) == Strip(f[n] \o <<"\n">>)

IsBlankLine(f, n) == TrimmedLine(f, n) = <<>>

IsCommentLine(f, n) == ~IsBlankLine(f, n) /\ Head(TrimmedLine(f, n)) = "#"

IsShortLine(f, n) ==
    /\ ~IsBlankLine(f, n)
    /\ ~IsCommentLine(f, n)
    /\ Len(Split(TrimmedLine(f, n), ",")) < 2

IsDataLine(f, n) ==
    ~IsBlankLine(f, n) /\ ~IsCommentLine(f, n) /\ ~IsShortLine(f, n)

IsNumericLine(f, n) ==
    LET parts == Split(TrimmedLine(f, n), ",")
    IN  ParseFloat(parts[1]) # None /\ ParseFloat(parts[2]) # None

IsMalformedLine(f, n) == IsDataLine(f, n) /\ ~IsNumericLine(f, n)

IsWellFormedLine(f, n) == IsDataLine(f, n) /\ IsNumericLine(f, n)

\* the number of the first malformed line, Len(f) + 1 when there is none
FirstMalformed(f) ==
    IF \E n \in 1..Len(f) : IsMalformedLine(f, n)
    THEN CHOOSE n \in 1..Len(f) :
             IsMalformedLine(f, n) /\ \A k \in 1..(n - 1) : ~IsMalformedLine(f, k)
    ELSE Len(f) + 1

\* the records of the well-formed lines among the first n lines, in order
RECURSIVE WellFormedRecords(_, _)
WellFormedRecords(f, n) ==
    IF n = 0 THEN <<>>
    ELSE LET before == WellFormedRecords(f, n - 1)
         IN  IF IsWellFormedLine(f, n)
             THEN Append(before, FileRecord(TrimmedLine(f, n), Len(before)))
             ELSE before

FileReadOver == choice = ModeFile /\ file # None /\ pc \notin {"filename", "reading"}

\* C2: the first data line whose latitude or longitude is not numeric ends
\* the read: the records returned are those of the well-formed lines before
\* it, in file order, and no later line adds one.
C2_MalformedLineEndsRead ==
    FileReadOver =>
        /\ coordinates = WellFormedRecords(file[1], FirstMalformed(file[1]) - 1)
        /\ read_error <=> FirstMalformed(file[1]) <= Len(file[1])

C2_Witness ==
    /\ FileReadOver
    /\ Len(file[1]) = 3
    /\ IsWellFormedLine(file[1], 1)
    /\ IsMalformedLine(file[1], 2)
    /\ IsWellFormedLine(file[1], 3)
    /\ Len(coordinates) = 1
    /\ line_num = 2

\* the reader takes the next line, line_num'
ReadsNextLine == pc = "reading" /\ line_num' = line_num + 1

\* C3: a blank line, a comment or a line with fewer than two parts adds no
\* record and does not stop the read; only the short line is reported, with
\* its physical line number; the well-formed lines of a file without a
\* malformed line all yield their records.
C3_SkippedLinesDoNotStopRead ==
    [][ /\ (/\ ReadsNextLine
             /\ \/ IsBlankLine(file[1], line_num')
                \/ IsCommentLine(file[1], line_num')
                \/ IsShortLine(file[1], line_num'))
               => /\ coordinates' = coordinates
                  /\ pc' = "reading"
                  /\ ~read_error'
                  /\ reported' = IF IsShortLine(file[1], line_num')
                                 THEN Append(reported, line_num')
                                 ELSE reported
        /\ (FileReadOver' /\ FirstMalformed(file'[1]) > Len(file'[1]))
               => /\ coordinates' = WellFormedRecords(file'[1], Len(file'[1]))
                  /\ Len(coordinates') =
                         Cardinality({n \in 1..Len(file'[1]) :
                                          IsDataLine(file'[1], n)})
      ]_vars

C3_Witness ==
    /\ FileReadOver
    /\ ~read_error
    /\ Len(file[1]) = 3
    /\ IsCommentLine(file[1], 1)
    /\ IsShortLine(file[1], 2)
    /\ IsWellFormedLine(file[1], 3)
    /\ reported = <<2>>
    /\ Len(coordinates) = 1

\* C4: every record a producer yields, and every feature built from it, has
\* a non-empty name.
C4_NamesNeverEmpty ==
    /\ \A i \in 1..Len(coordinates) : coordinates[i][3] # <<>>
    /\ \A i \in 1..Len(features) : features[i].properties.name # <<>>

\* a token of exactly eight digits, day(2) month(2) year(4), naming a date
IsFixedWidthDate(token) ==
    /\ Len(token) = 8
    /\ AllDigits(token)
    /\ LET d == DigitsVal(SubSeq(token, 1, 2))
           m == DigitsVal(SubSeq(token, 3, 4))
           y == DigitsVal(SubSeq(token, 5, 8))
       IN  m \in 1..12 /\ y >= 1 /\ d \in 1..DaysInMonth(y, m)

\* C5: a token that is not a fixed-width day(2)-month(2)-year(4) calendar
\* date formats to null and makes the duration null.
C5_OnlyFixedWidthTokensAccepted ==
    \A i \in 1..Len(features) :
        LET p == features[i].properties
        IN  /\ ~IsFixedWidthDate(coordinates[i][4]) =>
                   p.start_date = None /\ p.duration_days = None
            /\ ~IsFixedWidthDate(coordinates[i][5]) =>
                   p.end_date = None /\ p.duration_days = None

\* calendar order, stated on year, month and day
DateBefore(a, b) ==
    \/ a.year < b.year
    \/ a.year = b.year /\ a.month < b.month
    \/ a.year = b.year /\ a.month = b.month /\ a.day < b.day

\* the day after a date
NextDay(a) ==
    IF a.day < DaysInMonth(a.year, a.month)
    THEN [a EXCEPT !.day = a.day + 1]
    ELSE IF a.month < 12
         THEN [a EXCEPT !.month = a.month + 1, !.day = 1]
         ELSE [year |-> a.year + 1, month |-> 1, day |-> 1]

\* C6: for two valid tokens the duration is the signed number of days from
\* start to end: 0 for the same date, negative when start is after end, 1
\* from a day to the next, and the opposite number when the two are swapped.
C6_DurationIsSigned ==
    \A i \in 1..Len(features) :
        LET start_tok == coordinates[i][4]
            end_tok   == coordinates[i][5]
            duration  == features[i].properties.duration_days
        IN  (Strptime(start_tok) # None /\ Strptime(end_tok) # None) =>
                LET a == Strptime(start_tok)[1]
                    b == Strptime(end_tok)[1]
                IN  /\ duration # None
                    /\ a = b => duration[1] = 0
                    /\ DateBefore(b, a) => duration[1] < 0
                    /\ DateBefore(a, b) => duration[1] > 0
                    /\ b = NextDay(a) => duration[1] = 1
                    /\ calculate_duration(end_tok, start_tok)
                           = Some(0 - duration[1])

C6_Witness ==
    /\ Len(features) = 1
    /\ coordinates[1][4] = <<"2", "0", "0", "1", "2", "0", "2", "4">>
    /\ coordinates[1][5] = <<"1", "5", "0", "1", "2", "0", "2", "4">>
    /\ features[1].properties.duration_days = Some(0 - 5)

\* C7: the output is asked for, built and written only after an ingestion
\* that produced a record in mode '1' or '2'; any other run ends before it.
C7_OutputOnlyWithRecords ==
    /\ (\/ pc \in {"ask_output", "build", "done"}
        \/ output_name # None
        \/ features # <<>>
        \/ written # None)
           => /\ Len(coordinates) >= 1
              /\ choice \in {ModeManual, ModeFile}
    /\ pc = "exit_invalid" => choice \notin {ModeManual, ModeFile}
    /\ pc \in {"exit_invalid", "exit_empty"} =>
           /\ coordinates = <<>>
           /\ output_name = None
           /\ features = <<>>
           /\ written = None

C7_Witness ==
    /\ pc = "exit_empty"
    /\ choice = ModeFile
    /\ file # None
    /\ read_error
    /\ line_num = 1
    /\ Len(file[1]) = 2
    /\ IsWellFormedLine(file[1], 2)
    /\ output_name = None
    /\ written = None

ManualPositions == {"manual_coord", "manual_name", "manual_start", "manual_end"}

\* a trimmed answer to the coordinate prompt that is not 'done' and has
\* fewer than two parts or a part that is not a number
IsBadCoordinateAnswer(text) ==
    /\ Lower(text) # Done
    /\ LET parts == Split(text, ",")
       IN  \/ Len(parts) < 2
           \/ ParseFloat(parts[1]) = None
           \/ ParseFloat(parts[2]) = None

\* C8: a round with a bad coordinate answer leaves the records as they were
\* and prompts again; a record is appended only by the last prompt of a
\* round, from the round's five fields; the loop is left exactly when the
\* coordinate prompt is answered 'done' in any case.
C8_BadRoundIsDiscarded ==
    [][ /\ (pc = "manual_coord" /\ IsBadCoordinateAnswer(user_input'))
               => /\ coordinates' = coordinates
                  /\ pending' = <<>>
                  /\ pc' = "manual_coord"
        /\ (pc \in ManualPositions /\ coordinates' # coordinates)
               => /\ pc = "manual_end"
                  /\ Len(pending) = 4
                  /\ Len(coordinates') = Len(coordinates) + 1
                  /\ SubSeq(coordinates', 1, Len(coordinates)) = coordinates
                  /\ SubSeq(coordinates'[Len(coordinates')], 1, 4) = pending
                  /\ Len(coordinates'[Len(coordinates')]) = 5
        /\ (pc \in ManualPositions /\ pc' \notin ManualPositions)
               => /\ pc = "manual_coord"
                  /\ Lower(user_input') = Done
        /\ (pc = "manual_coord" /\ Lower(user_input') = Done)
               => /\ pc' = "check"
                  /\ coordinates' = coordinates
      ]_vars

C8_Witness ==
    /\ pc = "manual_coord"
    /\ rounds = 2
    /\ Len(coordinates) = 1
    /\ IsBadCoordinateAnswer(user_input)
    /\ Len(Split(user_input, ",")) = 2

\* C9: the geometry of a feature is [longitude, latitude] while its
\* properties keep latitude and longitude under their own names.
C9_LongitudeFirst ==
    \A i \in 1..Len(features) :
        /\ features[i].geometry.coordinates
               = <<coordinates[i][2], coordinates[i][1]>>
        /\ features[i].properties.latitude = coordinates[i][1]
        /\ features[i].properties.longitude = coordinates[i][2]

C9_Witness ==
    /\ Len(features) >= 1
    /\ coordinates[1][1] # coordinates[1][2]
    /\ features[1].geometry.coordinates[1] = coordinates[1][2]

\* C10: a feature has a duration exactly when it has both formatted dates.
C10_DurationIffBothDates ==
    \A i \in 1..Len(features) :
        LET p == features[i].properties
        IN  p.duration_days # None
                <=> (p.start_date # None /\ p.end_date # None)

C10_Witness ==
    /\ Len(features) = 1
    /\ Len(coordinates[1][4]) = 7
    /\ features[1].properties.start_date # None
    /\ features[1].properties.end_date # None
    /\ features[1].properties.duration_days # None

=============================================================================
